---- MODULE Spec2Model ----
(***************************************************************************)
(* Model of distarray's per-axis index maps (distarray/local/maps.py):     *)
(* BlockMap, CyclicMap, BlockCyclicMap, UnstructuredMap, the factory       *)
(* map_from_dim_dict and the N-dimensional composition MDMap.              *)
(*                                                                         *)
(* Python objects are records holding exactly the attributes the           *)
(* constructor assigns.  A call that raises yields [exc |-> <name>].       *)
(* A call that returns yields [val |-> int], [seq |-> list],               *)
(* [dd |-> dict] or the map record itself.  Python lists are 0-based;      *)
(* they are sequences here, element i of the list being seq[i + 1].        *)
(***************************************************************************)
EXTENDS Integers, Sequences, FiniteSets, TLC

(***************************************************************************)
(* Bounds of the checked instance.                                         *)
(***************************************************************************)
MaxSize == 6
MaxGrid == 3
MaxBlock == 3
MaxIdx == 3
MaxLen == 3

\* inputs below zero (ranks, starts, indices) reach down to -MaxNeg
MaxNeg == 2

Sizes == 0..MaxSize
GridSizes == (-1)..MaxGrid
GridRanks == (-MaxNeg)..MaxGrid
Starts == (-MaxNeg)..MaxSize
BlockSizes == 0..MaxBlock
GlobalInds == (-MaxNeg)..(MaxSize + MaxGrid)
LocalInds == (-MaxNeg)..(MaxSize + 1)

(***************************************************************************)
(* Python integer arithmetic and builtins.                                 *)
(***************************************************************************)
\* a // b for b # 0: floor division, also for negative operands
FloorDiv(a, b) == a \div b

\* a % b for b # 0: the result has the sign of b
Mod(a, b) == a - b * FloorDiv(a, b)

Max(a, b) == IF a >= b THEN a ELSE b
Min(a, b) == IF a <= b THEN a ELSE b

Raise(e) == [exc |-> e]
IsExc(r) == "exc" \in DOMAIN r
\* an axis map: every map class carries the class attribute dist and sets
\* local_size
IsMap(r) == "dist" \in DOMAIN r /\ "local_size" \in DOMAIN r
IsClientMDMap(r) == "grid_shape" \in DOMAIN r
IsMDMap(r) == "ndim" \in DOMAIN r
IsContext(r) == "targets" \in DOMAIN r

\* len(range(a, b, step)) for step # 0
RangeLen(a, b, step) ==
    IF step > 0 THEN (IF b > a THEN FloorDiv(b - a - 1, step) + 1 ELSE 0)
    ELSE (IF a > b THEN FloorDiv(a - b - 1, -step) + 1 ELSE 0)

\* list(range(a, b, step)) for step # 0
Range(a, b, step) == [i \in 1..RangeLen(a, b, step) |-> a + (i - 1) * step]

\* lst[i]: negative i counts from the end, anything else out of range raises
ListGet(lst, i) ==
    IF i >= Len(lst) \/ i < -Len(lst) THEN Raise("IndexError")
    ELSE IF i < 0 THEN [val |-> lst[Len(lst) + i + 1]]
    ELSE [val |-> lst[i + 1]]

\* lst.index(x): position of the first occurrence, ValueError when absent
ListIndex(lst, x) ==
    IF \E i \in 1..Len(lst) : lst[i] = x
    THEN [val |-> (CHOOSE i \in 1..Len(lst) :
                      lst[i] = x /\ \A j \in 1..(i - 1) : lst[j] # x) - 1]
    ELSE Raise("ValueError")

\* dict(zip(keys, range(n))): zip stops at the shorter, a repeated key keeps
\* the value of its last occurrence
DictZip(keys, n) ==
    LET k == Min(Len(keys), Max(n, 0))
    IN [g \in {keys[i] : i \in 1..k} |->
           (CHOOSE i \in 1..k : keys[i] = g /\ \A j \in (i + 1)..k : keys[j] # g) - 1]

\* d[key] on a dict
DictGet(d, key) == IF key \in DOMAIN d THEN [val |-> d[key]] ELSE Raise("KeyError")

\* obj.name on an object: AttributeError when the attribute was never set
HasAttr(obj, name) == name \in DOMAIN obj

(***************************************************************************)
(* BlockMap                                                                *)
(***************************************************************************)
BlockMap(global_size, grid_size, grid_rank, start, stop) ==
    [cls |-> "BlockMap", dist |-> "b",
     start |-> start, stop |-> stop, local_size |-> stop - start,
     global_size |-> global_size, grid_size |-> grid_size, grid_rank |-> grid_rank]

BlockMap_local_from_global(self, gidx) ==
    IF gidx < self.start \/ gidx >= self.stop THEN Raise("IndexError")
    ELSE [val |-> gidx - self.start]

BlockMap_global_from_local(self, lidx) ==
    IF lidx >= self.local_size THEN Raise("IndexError")
    ELSE [val |-> lidx + self.start]

\* slice(start, stop): no step
BlockMap_global_slice(self) == [slice |-> [start |-> self.start, stop |-> self.stop]]

BlockMap_dim_dict(self) ==
    [dd |-> [dist_type |-> self.dist, size |-> self.global_size,
             proc_grid_rank |-> self.grid_rank, proc_grid_size |-> self.grid_size,
             start |-> self.start, stop |-> self.stop]]

\* variant: the range includes stop
BlockMap_global_index_Inclusive(self) == [seq |-> Range(self.start, self.stop + 1, 1)]

BlockMap_global_index(self) == [seq |-> Range(self.start, self.stop, 1)]

BlockMap_local_index(self) ==
    [dict |-> DictZip(BlockMap_global_index(self).seq, self.local_size)]

(***************************************************************************)
(* CyclicMap                                                               *)
(***************************************************************************)
CyclicMap(global_size, grid_size, grid_rank, start) ==
    IF start # grid_rank THEN Raise("ValueError")
    ELSE IF start >= grid_size THEN Raise("ValueError")
    ELSE IF grid_size = 0 THEN Raise("ZeroDivisionError")
    ELSE [cls |-> "CyclicMap", dist |-> "c",
          start |-> start, grid_size |-> grid_size, grid_rank |-> grid_rank,
          local_size |-> FloorDiv(global_size - 1 - grid_rank, grid_size) + 1,
          global_size |-> global_size]

CyclicMap_local_from_global(self, gidx) ==
    IF Mod(gidx - self.start, self.grid_size) # 0 THEN Raise("IndexError")
    ELSE [val |-> FloorDiv(gidx - self.start, self.grid_size)]

\* variant: the bound test lets lidx == local_size through
CyclicMap_global_from_local_OffByOne(self, lidx) ==
    IF lidx > self.local_size THEN Raise("IndexError")
    ELSE [val |-> (lidx * self.grid_size) + self.start]

CyclicMap_global_from_local(self, lidx) ==
    IF lidx >= self.local_size THEN Raise("IndexError")
    ELSE [val |-> (lidx * self.grid_size) + self.start]

\* variant: the stride is left out of the slice
CyclicMap_global_slice_NoStep(self) ==
    [slice |-> [start |-> self.start, stop |-> self.global_size]]

CyclicMap_global_slice(self) ==
    [slice |-> [start |-> self.start, stop |-> self.global_size,
                step |-> self.grid_size]]

CyclicMap_dim_dict(self) ==
    [dd |-> [dist_type |-> self.dist, size |-> self.global_size,
             proc_grid_rank |-> self.grid_rank, proc_grid_size |-> self.grid_size,
             start |-> self.start]]

\* variant: the stride is left out of the range
CyclicMap_global_index_NoStep(self) ==
    [seq |-> Range(self.start, self.global_size, 1)]

CyclicMap_global_index(self) ==
    [seq |-> Range(self.start, self.global_size, self.grid_size)]

CyclicMap_local_index(self) ==
    [dict |-> DictZip(CyclicMap_global_index(self).seq, self.local_size)]

(***************************************************************************)
(* BlockCyclicMap.  __init__ never assigns self.grid_rank.                 *)
(***************************************************************************)
\* variant: the number of local blocks is computed without the grid rank
BlockCyclicMap_RankIgnored(global_size, grid_size, grid_rank, start, block_size) ==
    IF block_size = 0 THEN Raise("ZeroDivisionError")
    ELSE IF Mod(start, block_size) # 0 THEN Raise("ValueError")
    ELSE LET global_nblocks == FloorDiv(global_size, block_size) IN
         IF global_nblocks * block_size # global_size THEN Raise("ValueError")
         ELSE IF grid_size = 0 THEN Raise("ZeroDivisionError")
         ELSE LET local_nblocks == FloorDiv(global_nblocks - 1, grid_size) + 1 IN
              [cls |-> "BlockCyclicMap", dist |-> "c",
               start |-> start, start_block |-> FloorDiv(start, block_size),
               block_size |-> block_size, grid_size |-> grid_size,
               local_size |-> local_nblocks * block_size,
               global_size |-> global_size]

\* variant: the test that global_size is a whole number of blocks is missing
BlockCyclicMap_NoSizeCheck(global_size, grid_size, grid_rank, start, block_size) ==
    IF block_size = 0 THEN Raise("ZeroDivisionError")
    ELSE IF Mod(start, block_size) # 0 THEN Raise("ValueError")
    ELSE LET global_nblocks == FloorDiv(global_size, block_size) IN
         IF grid_size = 0 THEN Raise("ZeroDivisionError")
         ELSE LET local_nblocks ==
                      FloorDiv(global_nblocks - 1 - grid_rank, grid_size) + 1 IN
              [cls |-> "BlockCyclicMap", dist |-> "c",
               start |-> start, start_block |-> FloorDiv(start, block_size),
               block_size |-> block_size, grid_size |-> grid_size,
               local_size |-> local_nblocks * block_size,
               global_size |-> global_size]

BlockCyclicMap(global_size, grid_size, grid_rank, start, block_size) ==
    IF block_size = 0 THEN Raise("ZeroDivisionError")
    ELSE IF Mod(start, block_size) # 0 THEN Raise("ValueError")
    ELSE LET global_nblocks == FloorDiv(global_size, block_size) IN
         IF global_nblocks * block_size # global_size THEN Raise("ValueError")
         ELSE IF grid_size = 0 THEN Raise("ZeroDivisionError")
         ELSE LET local_nblocks ==
                      FloorDiv(global_nblocks - 1 - grid_rank, grid_size) + 1 IN
              [cls |-> "BlockCyclicMap", dist |-> "c",
               start |-> start, start_block |-> FloorDiv(start, block_size),
               block_size |-> block_size, grid_size |-> grid_size,
               local_size |-> local_nblocks * block_size,
               global_size |-> global_size]

BlockCyclicMap_local_from_global(self, gidx) ==
    LET global_block == FloorDiv(gidx, self.block_size)
        offset == Mod(gidx, self.block_size)
    IN IF Mod(global_block - self.start_block, self.grid_size) # 0
       THEN Raise("IndexError")
       ELSE [val |-> self.block_size
                       * FloorDiv(global_block - self.start_block, self.grid_size)
                     + offset]

\* variant: the first block is taken to be block 0, whatever start is
BlockCyclicMap_global_from_local_NoStart(self, lidx) ==
    IF lidx >= self.local_size THEN Raise("IndexError")
    ELSE LET local_block == FloorDiv(lidx, self.block_size)
             offset == Mod(lidx, self.block_size)
             global_block == local_block * self.grid_size
         IN [val |-> global_block * self.block_size + offset]

BlockCyclicMap_global_from_local(self, lidx) ==
    IF lidx >= self.local_size THEN Raise("IndexError")
    ELSE LET local_block == FloorDiv(lidx, self.block_size)
             offset == Mod(lidx, self.block_size)
             global_block == (local_block * self.grid_size) + self.start_block
         IN [val |-> global_block * self.block_size + offset]

BlockCyclicMap_global_slice(self) == Raise("NotImplementedError")

BlockCyclicMap_dim_dict(self) ==
    IF ~HasAttr(self, "grid_rank") THEN Raise("AttributeError")
    ELSE [dd |-> [dist_type |-> self.dist, size |-> self.global_size,
                  proc_grid_rank |-> self.grid_rank,
                  proc_grid_size |-> self.grid_size,
                  start |-> self.start, block_size |-> self.block_size]]

\* numpy.empty refuses a negative length; the values stay far below 2^31
BlockCyclicMap_global_index(self) ==
    IF self.local_size < 0 THEN Raise("ValueError")
    ELSE [seq |-> [i \in 1..self.local_size |->
                      BlockCyclicMap_global_from_local(self, i - 1).val]]

BlockCyclicMap_local_index(self) ==
    LET gi == BlockCyclicMap_global_index(self)
    IN IF IsExc(gi) THEN gi ELSE [dict |-> DictZip(gi.seq, self.local_size)]

(***************************************************************************)
(* UnstructuredMap                                                         *)
(***************************************************************************)
\* variant: the indices are stored in ascending order
UnstructuredMap_Sorted(global_size, grid_size, grid_rank, indices) ==
    LET sorted == SortSeq(indices, LAMBDA a, b : a < b)
    IN [cls |-> "UnstructuredMap", dist |-> "u",
        global_size |-> global_size, grid_size |-> grid_size, grid_rank |-> grid_rank,
        indices |-> sorted, local_size |-> Len(sorted),
        _local_index |-> DictZip(sorted, Len(sorted))]

UnstructuredMap(global_size, grid_size, grid_rank, indices) ==
    [cls |-> "UnstructuredMap", dist |-> "u",
     global_size |-> global_size, grid_size |-> grid_size, grid_rank |-> grid_rank,
     indices |-> indices, local_size |-> Len(indices),
     _local_index |-> DictZip(indices, Len(indices))]

UnstructuredMap_local_from_global(self, gidx) ==
    LET lidx == ListIndex(self.indices, gidx)
    IN IF IsExc(lidx) THEN Raise("IndexError") ELSE lidx

UnstructuredMap_global_from_local(self, lidx) == ListGet(self.indices, lidx)

UnstructuredMap_global_slice(self) == Raise("NotImplementedError")

UnstructuredMap_dim_dict(self) ==
    [dd |-> [dist_type |-> self.dist, size |-> self.global_size,
             proc_grid_rank |-> self.grid_rank, proc_grid_size |-> self.grid_size,
             indices |-> self.indices]]

UnstructuredMap_global_index(self) == [seq |-> self.indices]

UnstructuredMap_local_index(self) == [dict |-> self._local_index]

(***************************************************************************)
(* Dispatch on the class of the receiver (Python method lookup).           *)
(***************************************************************************)
local_from_global(self, gidx) ==
    CASE self.cls = "BlockMap" -> BlockMap_local_from_global(self, gidx)
      [] self.cls = "CyclicMap" -> CyclicMap_local_from_global(self, gidx)
      [] self.cls = "BlockCyclicMap" -> BlockCyclicMap_local_from_global(self, gidx)
      [] self.cls = "UnstructuredMap" -> UnstructuredMap_local_from_global(self, gidx)

global_from_local(self, lidx) ==
    CASE self.cls = "BlockMap" -> BlockMap_global_from_local(self, lidx)
      [] self.cls = "CyclicMap" -> CyclicMap_global_from_local(self, lidx)
      [] self.cls = "BlockCyclicMap" -> BlockCyclicMap_global_from_local(self, lidx)
      [] self.cls = "UnstructuredMap" -> UnstructuredMap_global_from_local(self, lidx)

global_slice(self) ==
    CASE self.cls = "BlockMap" -> BlockMap_global_slice(self)
      [] self.cls = "CyclicMap" -> CyclicMap_global_slice(self)
      [] self.cls = "BlockCyclicMap" -> BlockCyclicMap_global_slice(self)
      [] self.cls = "UnstructuredMap" -> UnstructuredMap_global_slice(self)

dim_dict(self) ==
    CASE self.cls = "BlockMap" -> BlockMap_dim_dict(self)
      [] self.cls = "CyclicMap" -> CyclicMap_dim_dict(self)
      [] self.cls = "BlockCyclicMap" -> BlockCyclicMap_dim_dict(self)
      [] self.cls = "UnstructuredMap" -> UnstructuredMap_dim_dict(self)

global_index(self) ==
    CASE self.cls = "BlockMap" -> BlockMap_global_index(self)
      [] self.cls = "CyclicMap" -> CyclicMap_global_index(self)
      [] self.cls = "BlockCyclicMap" -> BlockCyclicMap_global_index(self)
      [] self.cls = "UnstructuredMap" -> UnstructuredMap_global_index(self)

local_index(self) ==
    CASE self.cls = "BlockMap" -> BlockMap_local_index(self)
      [] self.cls = "CyclicMap" -> CyclicMap_local_index(self)
      [] self.cls = "BlockCyclicMap" -> BlockCyclicMap_local_index(self)
      [] self.cls = "UnstructuredMap" -> UnstructuredMap_local_index(self)

\* the size property: len(self.global_index)
size(self) ==
    LET gi == global_index(self)
    IN IF IsExc(gi) THEN gi ELSE [val |-> Len(gi.seq)]

(***************************************************************************)
(* map_from_dim_dict.  dd.get(key, default) supplies the defaults; a       *)
(* missing start, stop or indices is passed on as None, and every          *)
(* constructor then fails with TypeError on its first use of the value     *)
(* (stop - start, "%d" % None, None % block_size, list(None)).             *)
(***************************************************************************)
Get(dd, key, default) == IF key \in DOMAIN dd THEN dd[key] ELSE default

map_from_dim_dict(dd) ==
    LET dist_type == dd.dist_type
        sz == dd.size
        grid_rank == Get(dd, "proc_grid_rank", 0)
        grid_size == Get(dd, "proc_grid_size", 1)
        block_size == Get(dd, "block_size", 1)
    IN IF dist_type = "n" THEN BlockMap(sz, grid_size, grid_rank, 0, sz)
       ELSE IF dist_type = "b" THEN
           IF "start" \notin DOMAIN dd \/ "stop" \notin DOMAIN dd
           THEN Raise("TypeError")
           ELSE BlockMap(sz, grid_size, grid_rank, dd.start, dd.stop)
       ELSE IF dist_type = "c" /\ block_size = 1 THEN
           IF "start" \notin DOMAIN dd THEN Raise("TypeError")
           ELSE CyclicMap(sz, grid_size, grid_rank, dd.start)
       ELSE IF dist_type = "c" /\ block_size > 1 THEN
           IF "start" \notin DOMAIN dd THEN Raise("TypeError")
           ELSE BlockCyclicMap(sz, grid_size, grid_rank, dd.start, block_size)
       ELSE IF dist_type = "u" THEN
           IF "indices" \notin DOMAIN dd THEN Raise("TypeError")
           ELSE UnstructuredMap(sz, grid_size, grid_rank, dd.indices)
       ELSE Raise("ValueError")

(***************************************************************************)
(* MDMap: one axis map per dimension.  A generator inside tuple(...) stops *)
(* at the first component that raises, so the first exception in axis      *)
(* order is the exception of the call.                                     *)
(***************************************************************************)
\* the exception of the first failing component, or the tuple of the values
TupleOf(parts) ==
    IF \E d \in 1..Len(parts) : IsExc(parts[d])
    THEN parts[CHOOSE d \in 1..Len(parts) :
                   IsExc(parts[d]) /\ \A e \in 1..(d - 1) : ~IsExc(parts[e])]
    ELSE [tup |-> [d \in 1..Len(parts) |-> parts[d].val]]

MDMap_from_dim_data(dim_data) ==
    LET maps == [d \in 1..Len(dim_data) |-> map_from_dim_dict(dim_data[d])]
    IN IF \E d \in 1..Len(maps) : IsExc(maps[d])
       THEN maps[CHOOSE d \in 1..Len(maps) :
                     IsExc(maps[d]) /\ \A e \in 1..(d - 1) : ~IsExc(maps[e])]
       ELSE [cls |-> "MDMap", maps |-> maps, ndim |-> Len(maps)]

MDMap_local_shape(self) ==
    TupleOf([d \in 1..self.ndim |-> size(self.maps[d])])

\* self.maps[dim].local_index[global_ind[dim]]: the property is read first,
\* then the argument tuple is indexed, then the dict is subscripted
MDMap_local_from_global(self, global_ind) ==
    TupleOf([d \in 1..self.ndim |->
                LET li == local_index(self.maps[d])
                IN IF IsExc(li) THEN li
                   ELSE IF d > Len(global_ind) THEN Raise("IndexError")
                   ELSE DictGet(li.dict, global_ind[d])])

MDMap_global_from_local(self, local_ind) ==
    TupleOf([d \in 1..self.ndim |->
                LET gi == global_index(self.maps[d])
                IN IF IsExc(gi) THEN gi
                   ELSE IF d > Len(local_ind) THEN Raise("IndexError")
                   ELSE ListGet(gi.seq, local_ind[d])])

(***************************************************************************)
(* ClientMDMap (distarray/client_map.py): the client-side view of a        *)
(* distribution over all ranks, given by the global shape, the per-axis    *)
(* dist_type ('n', 'b' or 'c') and the per-axis grid sizes.  A flat rank   *)
(* is the row-major flattening of its per-axis grid positions (last axis   *)
(* fastest).  On a 'b' axis the rank at grid position q holds the chunk    *)
(* [q * chunk, (q + 1) * chunk) cut at the global size, chunk being the    *)
(* ceiling of size / grid_size; on a 'c' axis it holds the Cyclic map      *)
(* with start q; an 'n' axis is held whole.                                *)
(***************************************************************************)
RECURSIVE Product(_)
Product(s) == IF s = <<>> THEN 1 ELSE Head(s) * Product(Tail(s))

\* the grid position of flat rank r along axis d
GridPosition(r, grid_shape, d) ==
    Mod(FloorDiv(r, Product(SubSeq(grid_shape, d + 1, Len(grid_shape)))),
        grid_shape[d])

\* the axis map that the rank at grid position q holds on axis d
ClientAxisMap(self, d, q) ==
    LET n == self.shape[d]
        p == self.grid_shape[d]
        chunk == FloorDiv(n + p - 1, p)
    IN IF self.dist[d] = "c" THEN CyclicMap(n, p, q, q)
       ELSE IF self.dist[d] = "b"
            THEN BlockMap(n, p, q, Min(q * chunk, n), Min((q + 1) * chunk, n))
       ELSE BlockMap(n, p, q, 0, n)

RECURSIVE Ascending(_)
Ascending(S) ==
    IF S = {} THEN <<>>
    ELSE LET least == CHOOSE x \in S : \A y \in S : x <= y
         IN <<least>> \o Ascending(S \ {least})

\* the ranks that own the global index tuple, ascending: a rank owns it when
\* each of its axis maps lists the component of its axis in global_index
ClientMDMap_owning_ranks(self, index) ==
    LET nranks == Product(self.grid_shape)
        owns(r) == \A d \in 1..Len(self.shape) :
                       LET gi == global_index(
                                     ClientAxisMap(self, d,
                                         GridPosition(r, self.grid_shape, d)))
                       IN ~IsExc(gi) /\ \E i \in 1..Len(gi.seq) : gi.seq[i] = index[d]
    IN [seq |-> Ascending({r \in 0..(nranks - 1) : owns(r)})]

(***************************************************************************)
(* Context and DistArray (distarray/context.py, distarray/client.py): the  *)
(* client side.  A Context holds the engine ids in rank order (targets).   *)
(* Of the engines the model keeps what the last reconstruction left on     *)
(* them: engines[r] is the MDMap that rank r built from its entry of the   *)
(* descriptor table, and da says that a DistArray handle for it exists.    *)
(* An operation yields its outcome together with the number of keys it     *)
(* generated and the commands it sent to the view, in order.               *)
(***************************************************************************)
Context(targets) ==
    [cls |-> "Context", targets |-> targets, da |-> FALSE, engines |-> <<>>]

\* targets = targets or self.targets; None and the empty list are both false
Context__targets(self, targets) ==
    IF targets = <<>> THEN self.targets ELSE targets

Context__execute(self, targets) ==
    [cmd |-> "execute", targets |-> Context__targets(self, targets)]

Context__push(self, targets) ==
    [cmd |-> "push", targets |-> Context__targets(self, targets)]

Context__pull(self, targets) ==
    [cmd |-> "pull", targets |-> Context__targets(self, targets)]

Context__execute0(self) == [cmd |-> "execute", targets |-> <<self.targets[1]>>]

Context__pull0(self) == [cmd |-> "pull", targets |-> <<self.targets[1]>>]

\* DistArray.from_localarrays: _make_mdmap_from_local_dimdata, _get_attribute
DistArray_from_localarrays(self) ==
    [keys |-> 2,
     sent |-> <<Context__execute(self, <<>>), Context__pull(self, <<>>),
                Context__execute0(self), Context__pull0(self)>>]

\* variant: the table is not measured against the targets
Reconstruct_NoLengthCheck(self, fn, dim_data_per_rank) ==
    LET nranks == Min(Len(self.targets), Len(dim_data_per_rank))
        maps == [r \in 1..nranks |-> MDMap_from_dim_data(dim_data_per_rank[r])]
    IN [out |-> [da |-> dim_data_per_rank], keys |-> 5,
        sent |-> <<Context__push(self, <<>>), Context__execute(self, <<>>)>>
                 \o DistArray_from_localarrays(self).sent,
        engines |-> maps, da |-> TRUE]

\* Context._from_dim_data, Context.load_npy and Context.load_hdf5 (fn names
\* which): the length check, then the keys and pushes of the arguments, the
\* command that makes every rank build its local array from its own entry
\* of the table, and DistArray.from_localarrays.  A rank whose entry
\* map_from_dim_dict refuses makes the command fail.
Reconstruct(self, fn, dim_data_per_rank) ==
    IF Len(self.targets) # Len(dim_data_per_rank)
    THEN [out |-> Raise("TypeError"), keys |-> 0, sent |-> <<>>,
          engines |-> self.engines, da |-> self.da]
    ELSE LET maps == [r \in 1..Len(dim_data_per_rank) |->
                         MDMap_from_dim_data(dim_data_per_rank[r])]
             nkeys == IF fn = "load_hdf5" THEN 4 ELSE 3
             pushes == IF fn = "load_npy"
                       THEN <<Context__push(self, <<>>)>>
                       ELSE <<Context__push(self, <<>>), Context__push(self, <<>>)>>
             cmds == pushes \o <<Context__execute(self, <<>>)>>
             made == DistArray_from_localarrays(self)
         IN IF \E r \in 1..Len(maps) : IsExc(maps[r])
            THEN [out |-> Raise("RemoteError"), keys |-> nkeys, sent |-> cmds,
                  engines |-> self.engines, da |-> self.da]
            ELSE [out |-> [da |-> dim_data_per_rank], keys |-> nkeys + made.keys,
                  sent |-> cmds \o made.sent, engines |-> maps, da |-> TRUE]

\* Distribution.owning_targets (distarray/client_map.py): the engine ids, in
\* rank order, of the ranks whose map owns the index
Distribution_owning_targets(self, index) ==
    LET owners == {r \in 1..Len(self.engines) :
                      ~IsExc(MDMap_local_from_global(self.engines[r], index))}
        ranks == Ascending(owners)
    IN [r \in 1..Len(ranks) |-> self.targets[ranks[r]]]

\* the shape of the DistArray: the global sizes of the axes
DistArray_shape(self) ==
    [d \in 1..self.engines[1].ndim |-> self.engines[1].maps[d].global_size]

\* DistArray._normalize_index for an integer index: coerce to a tuple, count
\* a negative index from the end, check the bounds
DistArray__normalize_index(self, index) ==
    LET shape == DistArray_shape(self)
        i == IF index >= 0 THEN index ELSE shape[1] + index
    IN IF i >= shape[1] \/ i < 0 THEN Raise("IndexError") ELSE [tup |-> <<i>>]

\* process_return_value: the type of the result is asked of the targets; if
\* every engine asked holds None the result is None, otherwise the result
\* is pulled.  An engine holds None unless it is one of the holders, the
\* engines whose rank owns the index.
process_return_value(self, targets, holders, index) ==
    LET asked == Context__targets(self, targets)
        all_none == \A a \in 1..Len(asked) :
                        \A h \in 1..Len(holders) : holders[h] # asked[a]
        types == <<Context__execute(self, targets), Context__pull(self, targets)>>
    IN IF all_none THEN [out |-> [none |-> TRUE], keys |-> 1, sent |-> types]
       ELSE [out |-> [item |-> index], keys |-> 1,
             sent |-> Append(types, Context__pull(self, targets))]

\* DistArray.__getitem__ once the index is normalized and targets holds the
\* answer of owning_targets
DistArray___getitem___targets(self, index, targets) ==
    LET ret == process_return_value(self, targets, targets, index)
    IN IF Len(targets) = 1
       THEN [out |-> [item |-> index], keys |-> 0,
             sent |-> <<[cmd |-> "apply", targets |-> targets]>>,
             owners |-> targets]
       ELSE [out |-> IF "none" \in DOMAIN ret.out
                     THEN Raise("IndexError") ELSE ret.out,
             keys |-> 1 + ret.keys,
             sent |-> <<Context__execute(self, targets)>> \o ret.sent,
             owners |-> targets]

\* DistArray.__getitem__ for an integer index
DistArray___getitem__(self, index) ==
    LET idx == DistArray__normalize_index(self, index)
    IN IF IsExc(idx) THEN [out |-> idx, keys |-> 0, sent |-> <<>>, owners |-> <<>>]
       ELSE DistArray___getitem___targets(self, idx.tup,
                Distribution_owning_targets(self, idx.tup))

\* DistArray.__setitem__ once the index is normalized and targets holds the
\* answer of owning_targets
DistArray___setitem___targets(self, index, targets) ==
    LET ret == process_return_value(self, targets, targets, index)
    IN [out |-> IF "none" \in DOMAIN ret.out
                THEN Raise("IndexError") ELSE [none |-> TRUE],
        keys |-> 1 + ret.keys,
        sent |-> <<Context__execute(self, targets)>> \o ret.sent,
        owners |-> targets]

\* DistArray.__setitem__ for an integer index
DistArray___setitem__(self, index) ==
    LET idx == DistArray__normalize_index(self, index)
    IN IF IsExc(idx) THEN [out |-> idx, keys |-> 0, sent |-> <<>>, owners |-> <<>>]
       ELSE DistArray___setitem___targets(self, idx.tup,
                Distribution_owning_targets(self, idx.tup))

(***************************************************************************)
(* State.  The maps are immutable value objects, so the state of a run is  *)
(* the last constructor call, the object (or exception) it produced, and   *)
(* the outcome of the last query made on that object.                      *)
(***************************************************************************)
VARIABLES call, m, res

vars == <<call, m, res>>

NoCall == [fn |-> "none"]
NoObj == [none |-> TRUE]
NoRes == [op |-> "none"]

\* lists of global positions handed to UnstructuredMap
RECURSIVE ListsUpTo(_, _)
ListsUpTo(S, n) ==
    IF n = 0 THEN {<<>>}
    ELSE LET shorter == ListsUpTo(S, n - 1)
         IN shorter \cup {Append(l, x) : l \in {t \in shorter : Len(t) = n - 1}, x \in S}

IndexLists == ListsUpTo(0..MaxIdx, MaxLen)

\* global sizes handed to UnstructuredMap, which only stores them: one that
\* the largest index reaches and one that no index reaches
UnstructuredSizes == {MaxIdx, MaxSize}

\* (grid_size, grid_rank) pairs for the maps that only store them
Grids == {<<1, 0>>, <<MaxGrid, MaxGrid - 1>>}

\* descriptors handed to map_from_dim_dict; optional keys may be absent
WithOpt(dds, key, values) == dds \cup {[k \in DOMAIN dd \cup {key} |->
                                           IF k = key THEN v ELSE dd[k]] :
                                       dd \in dds, v \in values}

DimDicts ==
    LET n == {[dist_type |-> "n", size |-> sz] : sz \in Sizes}
        b == {[dist_type |-> "b", size |-> sz, start |-> a, stop |-> z] :
                 sz \in {MaxSize}, a \in 0..MaxSize, z \in 0..MaxSize}
        c == WithOpt(WithOpt(
                 {[dist_type |-> "c", size |-> sz, start |-> a, proc_grid_size |-> p] :
                     sz \in Sizes, a \in 0..(MaxSize - 1), p \in 1..MaxGrid},
                 "proc_grid_rank", 0..(MaxGrid - 1)),
                 "block_size", BlockSizes)
        u == {[dist_type |-> "u", size |-> sz, indices |-> il] :
                 sz \in {MaxSize}, il \in IndexLists}
        x == {[dist_type |-> "x", size |-> sz] : sz \in {MaxSize}}
        partial == {[dist_type |-> t, size |-> sz] : t \in {"b", "c", "u"}, sz \in {MaxSize}}
    IN n \cup b \cup c \cup u \cup x \cup partial

\* per-axis descriptors handed to MDMap.from_dim_data
MDDimDicts ==
    {[dist_type |-> "n", size |-> MaxIdx],
     [dist_type |-> "b", size |-> MaxSize, start |-> 1, stop |-> MaxSize - 1],
     [dist_type |-> "b", size |-> MaxSize, start |-> 2, stop |-> 1],
     [dist_type |-> "c", size |-> MaxSize, start |-> 0,
      proc_grid_size |-> 2, proc_grid_rank |-> 0],
     [dist_type |-> "c", size |-> MaxSize, start |-> 1,
      proc_grid_size |-> 2, proc_grid_rank |-> 1],
     [dist_type |-> "c", size |-> MaxSize, start |-> 1, proc_grid_size |-> 2],
     [dist_type |-> "c", size |-> 2 * MaxBlock, start |-> MaxBlock,
      proc_grid_size |-> 2, proc_grid_rank |-> 1, block_size |-> MaxBlock],
     [dist_type |-> "u", size |-> MaxSize, indices |-> <<MaxIdx, 0>>],
     [dist_type |-> "u", size |-> MaxSize, indices |-> <<1, 0, 1>>]}

DimDatas == {<<d>> : d \in MDDimDicts} \cup (MDDimDicts \X MDDimDicts)

\* index tuples handed to the MDMap queries
MDInds == (-1)..MaxSize
IndexTuples == {<<i>> : i \in MDInds} \cup (MDInds \X MDInds)

\* shapes, dist and grid shapes handed to ClientMDMap; an 'n' axis has
\* grid size 1
ClientSizes == {3, 5, MaxSize}
ClientAxes ==
    {<<n, t, p>> \in ClientSizes \X {"n", "b", "c"} \X (1..MaxGrid) :
        t = "n" => p = 1}
ClientAxisLists == {<<a>> : a \in ClientAxes} \cup (ClientAxes \X ClientAxes)

\* the index tuples within the shape: DistArray normalizes and bounds-checks
\* an index before it asks for the owners
IndicesWithin(shape) ==
    IF Len(shape) = 1 THEN {<<i>> : i \in 0..(shape[1] - 1)}
    ELSE (0..(shape[1] - 1)) \X (0..(shape[2] - 1))

\* the engine ids of a Context, in rank order
ContextTargets == {<<0>>, <<0, 1>>}

\* per-rank entries of a descriptor table: one Block axis of MaxSize
\* positions, or an entry no rank can build a map from
TableEntries ==
    {<<[dist_type |-> "b", size |-> MaxSize, start |-> 0, stop |-> MaxIdx]>>,
     <<[dist_type |-> "b", size |-> MaxSize, start |-> MaxIdx, stop |-> MaxSize]>>,
     <<[dist_type |-> "b", size |-> MaxSize, start |-> MaxIdx + 1, stop |-> MaxSize]>>,
     <<[dist_type |-> "x", size |-> MaxSize]>>}

\* tables with as many entries as a Context has ranks, or one more
TableLens == {Len(t) : t \in ContextTargets} \cup {Len(t) + 1 : t \in ContextTargets}
Tables == UNION {[1..n -> TableEntries] : n \in TableLens}

Init ==
    /\ call = NoCall
    /\ m = NoObj
    /\ res = NoRes

(***************************************************************************)
(* Constructor calls.  A run builds one object and then queries it; the    *)
(* objects of different runs share nothing.                                *)
(***************************************************************************)
NewBlockMap ==
    /\ call = NoCall
    /\ \E sz \in Sizes, g \in Grids, a \in 0..MaxSize, z \in 0..MaxSize :
        /\ call' = [fn |-> "BlockMap", global_size |-> sz, grid_size |-> g[1],
                    grid_rank |-> g[2], start |-> a, stop |-> z]
        /\ m' = BlockMap(sz, g[1], g[2], a, z)
        /\ res' = NoRes

NewCyclicMap ==
    /\ call = NoCall
    /\ \E sz \in Sizes, p \in GridSizes, r \in GridRanks, a \in Starts :
        /\ call' = [fn |-> "CyclicMap", global_size |-> sz, grid_size |-> p,
                    grid_rank |-> r, start |-> a]
        /\ m' = CyclicMap(sz, p, r, a)
        /\ res' = NoRes

NewBlockCyclicMap ==
    /\ call = NoCall
    /\ \E sz \in Sizes, p \in GridSizes, r \in GridRanks, a \in Starts, bs \in BlockSizes :
        /\ call' = [fn |-> "BlockCyclicMap", global_size |-> sz, grid_size |-> p,
                    grid_rank |-> r, start |-> a, block_size |-> bs]
        /\ m' = BlockCyclicMap(sz, p, r, a, bs)
        /\ res' = NoRes

NewUnstructuredMap ==
    /\ call = NoCall
    /\ \E sz \in UnstructuredSizes, g \in Grids, il \in IndexLists :
        /\ call' = [fn |-> "UnstructuredMap", global_size |-> sz, grid_size |-> g[1],
                    grid_rank |-> g[2], indices |-> il]
        /\ m' = UnstructuredMap(sz, g[1], g[2], il)
        /\ res' = NoRes

MapFromDimDict ==
    /\ call = NoCall
    /\ \E dd \in DimDicts :
        /\ call' = [fn |-> "map_from_dim_dict", dd |-> dd]
        /\ m' = map_from_dim_dict(dd)
        /\ res' = NoRes

(***************************************************************************)
(* Queries on the constructed map.                                         *)
(***************************************************************************)
LocalFromGlobal ==
    /\ IsMap(m)
    /\ \E g \in GlobalInds :
           res' = [op |-> "local_from_global", arg |-> g, out |-> local_from_global(m, g)]
    /\ UNCHANGED <<call, m>>

GlobalFromLocal ==
    /\ IsMap(m)
    /\ \E l \in LocalInds :
           res' = [op |-> "global_from_local", arg |-> l, out |-> global_from_local(m, l)]
    /\ UNCHANGED <<call, m>>

\* m.local_index[g]
LocalIndexGet ==
    /\ IsMap(m)
    /\ \E g \in GlobalInds :
           res' = [op |-> "local_index", arg |-> g,
                   out |-> LET li == local_index(m)
                           IN IF IsExc(li) THEN li ELSE DictGet(li.dict, g)]
    /\ UNCHANGED <<call, m>>

\* variant: global_index is a one-shot cursor that is used up by a read
GlobalIndexGet_OneShot ==
    /\ IsMap(m)
    /\ \E l \in LocalInds :
           res' = [op |-> "global_index", arg |-> l,
                   out |-> LET gi == global_index(m)
                           IN IF IsExc(gi) THEN gi ELSE ListGet(gi.seq, l)]
    /\ m' = [m EXCEPT !.local_size = 0, !.global_size = 0]
    /\ UNCHANGED call

\* m.global_index[l]
GlobalIndexGet ==
    /\ IsMap(m)
    /\ \E l \in LocalInds :
           res' = [op |-> "global_index", arg |-> l,
                   out |-> LET gi == global_index(m)
                           IN IF IsExc(gi) THEN gi ELSE ListGet(gi.seq, l)]
    /\ UNCHANGED <<call, m>>

\* m.global_slice()
GlobalSlice ==
    /\ IsMap(m)
    /\ res' = [op |-> "global_slice", out |-> global_slice(m)]
    /\ UNCHANGED <<call, m>>

\* m.dim_dict
DimDict ==
    /\ IsMap(m)
    /\ res' = [op |-> "dim_dict", out |-> dim_dict(m)]
    /\ UNCHANGED <<call, m>>

\* map_from_dim_dict(d) for the descriptor d that m.dim_dict just returned
Rebuild ==
    /\ res.op = "dim_dict"
    /\ ~IsExc(res.out)
    /\ res' = [op |-> "rebuild", out |-> map_from_dim_dict(res.out.dd)]
    /\ UNCHANGED <<call, m>>

(***************************************************************************)
(* MDMap construction and queries.                                         *)
(***************************************************************************)
MDFromDimData ==
    /\ call = NoCall
    /\ \E dim_data \in DimDatas :
        /\ call' = [fn |-> "MDMap.from_dim_data", dim_data |-> dim_data]
        /\ m' = MDMap_from_dim_data(dim_data)
        /\ res' = NoRes

MDLocalFromGlobal ==
    /\ IsMDMap(m)
    /\ \E global_ind \in IndexTuples :
           res' = [op |-> "MDMap.local_from_global", arg |-> global_ind,
                   out |-> MDMap_local_from_global(m, global_ind)]
    /\ UNCHANGED <<call, m>>

MDGlobalFromLocal ==
    /\ IsMDMap(m)
    /\ \E local_ind \in IndexTuples :
           res' = [op |-> "MDMap.global_from_local", arg |-> local_ind,
                   out |-> MDMap_global_from_local(m, local_ind)]
    /\ UNCHANGED <<call, m>>

MDLocalShape ==
    /\ IsMDMap(m)
    /\ res' = [op |-> "MDMap.local_shape", out |-> MDMap_local_shape(m)]
    /\ UNCHANGED <<call, m>>

(***************************************************************************)
(* ClientMDMap construction and ownership query.                           *)
(***************************************************************************)
NewClientMDMap ==
    /\ call = NoCall
    /\ \E axes \in ClientAxisLists :
        LET shape == [d \in 1..Len(axes) |-> axes[d][1]]
            dist == [d \in 1..Len(axes) |-> axes[d][2]]
            grid_shape == [d \in 1..Len(axes) |-> axes[d][3]]
        IN /\ call' = [fn |-> "ClientMDMap", shape |-> shape, dist |-> dist,
                       grid_shape |-> grid_shape]
           /\ m' = [cls |-> "ClientMDMap", shape |-> shape, dist |-> dist,
                    grid_shape |-> grid_shape]
           /\ res' = NoRes

OwningRanks ==
    /\ IsClientMDMap(m)
    /\ \E index \in IndicesWithin(m.shape) :
           res' = [op |-> "owning_ranks", arg |-> index,
                   out |-> ClientMDMap_owning_ranks(m, index)]
    /\ UNCHANGED <<call, m>>

(***************************************************************************)
(* Context construction and reconstruction from a descriptor table.        *)
(***************************************************************************)
NewContext ==
    /\ call = NoCall
    /\ \E targets \in ContextTargets :
        /\ call' = [fn |-> "Context", targets |-> targets]
        /\ m' = Context(targets)
        /\ res' = NoRes

FromDimData ==
    /\ IsContext(m)
    /\ \E fn \in {"_from_dim_data", "load_npy", "load_hdf5"}, table \in Tables :
        LET r == Reconstruct(m, fn, table)
        IN /\ res' = [op |-> fn, arg |-> table, out |-> r.out,
                      keys |-> r.keys, sent |-> r.sent]
           /\ m' = [m EXCEPT !.engines = r.engines, !.da = r.da]
    /\ UNCHANGED call

(***************************************************************************)
(* Element access on the DistArray that the last reconstruction returned.  *)
(***************************************************************************)
GetItem ==
    /\ IsContext(m)
    /\ m.da
    /\ \E index \in MDInds :
        LET r == DistArray___getitem__(m, index)
        IN res' = [op |-> "__getitem__", arg |-> index, out |-> r.out,
                   keys |-> r.keys, sent |-> r.sent, owners |-> r.owners]
    /\ UNCHANGED <<call, m>>

SetItem ==
    /\ IsContext(m)
    /\ m.da
    /\ \E index \in MDInds :
        LET r == DistArray___setitem__(m, index)
        IN res' = [op |-> "__setitem__", arg |-> index, out |-> r.out,
                   keys |-> r.keys, sent |-> r.sent, owners |-> r.owners]
    /\ UNCHANGED <<call, m>>

Next ==
    \/ NewBlockMap
    \/ NewCyclicMap
    \/ NewBlockCyclicMap
    \/ NewUnstructuredMap
    \/ MapFromDimDict
    \/ LocalFromGlobal
    \/ GlobalFromLocal
    \/ LocalIndexGet
    \/ GlobalIndexGet
    \/ GlobalSlice
    \/ DimDict
    \/ Rebuild
    \/ MDFromDimData
    \/ MDLocalFromGlobal
    \/ MDGlobalFromLocal
    \/ MDLocalShape
    \/ NewClientMDMap
    \/ OwningRanks
    \/ NewContext
    \/ FromDimData
    \/ GetItem
    \/ SetItem

Spec == Init /\ [][Next]_vars

(***************************************************************************)
(* An Unstructured map and a caller that sorts, in place, the lists it     *)
(* passed in or was handed.  __init__ stores list(indices), a copy;        *)
(* global_index returns self.indices itself and dim_dict puts              *)
(* self.indices itself under 'indices', so a write to either list is a     *)
(* write to the attribute; local_size and _local_index were computed at    *)
(* construction and stay.                                                  *)
(***************************************************************************)
Sorted(lst) == SortSeq(lst, LAMBDA a, b : a < b)

\* the map after the contents of self.indices became lst
UnstructuredMap_indices_written(self, lst) == [self EXCEPT !.indices = lst]

\* the caller sorts the sequence it passed to the constructor
SortArgument ==
    /\ IsMap(m)
    /\ call.fn = "UnstructuredMap"
    /\ res' = [op |-> "sort", arg |-> "indices argument"]
    /\ UNCHANGED <<call, m>>

\* m.global_index.sort()
SortGlobalIndex ==
    /\ IsMap(m)
    /\ m.cls = "UnstructuredMap"
    /\ m' = UnstructuredMap_indices_written(m,
                 Sorted(UnstructuredMap_global_index(m).seq))
    /\ res' = [op |-> "sort", arg |-> "global_index"]
    /\ UNCHANGED call

\* m.dim_dict['indices'].sort()
SortDimDictIndices ==
    /\ IsMap(m)
    /\ m.cls = "UnstructuredMap"
    /\ m' = UnstructuredMap_indices_written(m,
                 Sorted(UnstructuredMap_dim_dict(m).dd.indices))
    /\ res' = [op |-> "sort", arg |-> "dim_dict indices"]
    /\ UNCHANGED call

SharedNext ==
    \/ NewUnstructuredMap
    \/ LocalFromGlobal
    \/ GlobalFromLocal
    \/ LocalIndexGet
    \/ GlobalIndexGet
    \/ DimDict
    \/ SortArgument
    \/ SortGlobalIndex
    \/ SortDimDictIndices

SpecShared == Init /\ [][SharedNext]_vars

(***************************************************************************)
(* Properties.                                                             *)
(***************************************************************************)
\* the global positions a map owns: the elements of its global_index
Owned(self) ==
    LET gi == global_index(self)
    IN IF IsExc(gi) THEN {} ELSE {gi.seq[i] : i \in 1..Len(gi.seq)}

HasDuplicates(lst) == \E i, j \in 1..Len(lst) : i # j /\ lst[i] = lst[j]

\* C1 (as claimed): for every axis map that construction accepts and every
\* l in [0, local_size), local_from_global(global_from_local(l)) == l.
C1_Bijection ==
    IsMap(m) =>
        \A l \in 0..(m.local_size - 1) :
            LET g == global_from_local(m, l)
            IN ~IsExc(g) /\ local_from_global(m, g.val) = [val |-> l]

\* The precondition of C2: the constructed map is the rank-r member of a
\* well-formed family over n >= 0 positions and p >= 1 ranks.
C2_Case ==
    /\ call.fn \in {"CyclicMap", "BlockCyclicMap"}
    /\ call.global_size >= 0
    /\ call.grid_size >= 1
    /\ call.grid_rank \in 0..(call.grid_size - 1)
    /\ IF call.fn = "CyclicMap" THEN call.start = call.grid_rank
       ELSE /\ call.block_size >= 1
            /\ Mod(call.global_size, call.block_size) = 0
            /\ call.start = call.grid_rank * call.block_size

\* the map of rank r in the family the constructed map belongs to
C2_Family(r) ==
    IF call.fn = "CyclicMap"
    THEN CyclicMap(call.global_size, call.grid_size, r, r)
    ELSE BlockCyclicMap(call.global_size, call.grid_size, r,
                        r * call.block_size, call.block_size)

\* C2: Partition.  With one Cyclic map (start = r) or one Block-Cyclic map
\* (start = r * block_size, block_size dividing n) per rank r in [0, p), every
\* construction succeeds, no map lists a position twice, the owned sets of two
\* different ranks are disjoint and the union of all owned sets is {0..n-1};
\* this includes n < p and n = 0.
C2_Partition ==
    C2_Case =>
        LET ranks == 0..(call.grid_size - 1) IN
        /\ C2_Family(call.grid_rank) = m
        /\ \A r \in ranks :
               /\ IsMap(C2_Family(r))
               /\ ~IsExc(global_index(C2_Family(r)))
               /\ Cardinality(Owned(C2_Family(r))) = Len(global_index(C2_Family(r)).seq)
        /\ \A r1, r2 \in ranks :
               r1 # r2 => Owned(C2_Family(r1)) \cap Owned(C2_Family(r2)) = {}
        /\ UNION {Owned(C2_Family(r)) : r \in ranks} = 0..(call.global_size - 1)

\* C2 witness: a Block-Cyclic family with fewer blocks than ranks; the last
\* rank is constructed and owns nothing.
C2_Witness ==
    /\ C2_Case
    /\ call.fn = "BlockCyclicMap"
    /\ call.block_size = 2
    /\ call.global_size = 4
    /\ call.grid_size = 3
    /\ call.grid_rank = 2
    /\ IsMap(m)
    /\ Owned(m) = {}
    /\ res.op = "global_index"

\* C3 (as claimed): Descriptor round trip.  m.dim_dict succeeds for every map,
\* map_from_dim_dict of it succeeds, and the rebuilt map has the same
\* global_size, grid_size, grid_rank and local_size and answers every
\* local_from_global and global_from_local query as m does.
C3_RoundTrip ==
    /\ res.op = "dim_dict" => ~IsExc(res.out)
    /\ res.op = "rebuild" =>
           /\ IsMap(res.out)
           /\ res.out.global_size = m.global_size
           /\ res.out.grid_size = m.grid_size
           /\ HasAttr(m, "grid_rank") /\ HasAttr(res.out, "grid_rank")
           /\ res.out.grid_rank = m.grid_rank
           /\ res.out.local_size = m.local_size
           /\ \A g \in GlobalInds :
                  local_from_global(res.out, g) = local_from_global(m, g)
           /\ \A l \in LocalInds :
                  global_from_local(res.out, l) = global_from_local(m, l)

\* C4 (as claimed): local_from_global(g) raises IndexError for every g that
\* the map does not own (g < 0 and g >= global_size included) and returns a
\* value in [0, local_size) for every g it owns.
C4_NotOwnedRaises ==
    (IsMap(m) /\ res.op = "local_from_global") =>
        IF res.arg \in Owned(m)
        THEN ~IsExc(res.out) /\ res.out.val \in 0..(m.local_size - 1)
        ELSE res.out = Raise("IndexError")

\* C5 (as claimed): MDMap.local_from_global returns the tuple of the per-axis
\* local indices when every component is owned on its axis, and fails with
\* IndexError whenever some component is not owned on its axis.
C5_MDLocalFromGlobal ==
    (IsMDMap(m) /\ res.op = "MDMap.local_from_global" /\ Len(res.arg) = m.ndim) =>
        IF \A d \in 1..m.ndim : res.arg[d] \in Owned(m.maps[d])
        THEN /\ ~IsExc(res.out)
             /\ \A d \in 1..m.ndim :
                    DictGet(local_index(m.maps[d]).dict, res.arg[d])
                        = [val |-> res.out.tup[d]]
        ELSE res.out = Raise("IndexError")

\* C6 (as claimed): CyclicMap construction succeeds only when
\* start == grid_rank and 0 <= start < grid_size; every other combination is
\* rejected with ValueError.
C6_CyclicConstruction ==
    call.fn = "CyclicMap" =>
        IF call.start = call.grid_rank /\ 0 <= call.start /\ call.start < call.grid_size
        THEN IsMap(m)
        ELSE m = Raise("ValueError")

\* n is not an exact multiple of b (only 0 is a multiple of 0)
NotMultiple(n, b) == IF b = 0 THEN n # 0 ELSE Mod(n, b) # 0

\* The case of C7: BlockCyclicMap was called, directly or by map_from_dim_dict
\* for a 'c' descriptor with block_size > 1 that carries a start.
C7_Called ==
    \/ call.fn = "BlockCyclicMap"
    \/ /\ call.fn = "map_from_dim_dict"
       /\ call.dd.dist_type = "c"
       /\ Get(call.dd, "block_size", 1) > 1
       /\ "start" \in DOMAIN call.dd

C7_GlobalSize == IF call.fn = "BlockCyclicMap" THEN call.global_size ELSE call.dd.size
C7_BlockSize == IF call.fn = "BlockCyclicMap" THEN call.block_size ELSE call.dd.block_size

\* C7: BlockCyclicMap construction, directly or through map_from_dim_dict,
\* raises whenever global_size is not an exact multiple of block_size (a
\* ValueError for every block_size other than 0, where the division itself
\* fails), and every Block-Cyclic map that is produced has a global_size that
\* is a multiple of its block_size.
C7_PartialBlockRejected ==
    C7_Called =>
        /\ NotMultiple(C7_GlobalSize, C7_BlockSize) =>
               /\ IsExc(m)
               /\ C7_BlockSize # 0 => m = Raise("ValueError")
        /\ IsMap(m) =>
               /\ m.cls = "BlockCyclicMap"
               /\ m.block_size * FloorDiv(m.global_size, m.block_size) = m.global_size

\* C7 witness: start is a multiple of block_size, global_size is not, and the
\* constructor raised ValueError.
C7_Witness ==
    /\ call.fn = "BlockCyclicMap"
    /\ call.block_size = 2
    /\ call.start = 2
    /\ call.global_size = 5
    /\ call.grid_size = 2
    /\ call.grid_rank = 1
    /\ m = Raise("ValueError")

\* C8 (as claimed): constructing an Unstructured map whose indices contain a
\* global position more than once fails; no map is produced.
C8_DuplicatesRejected ==
    (call.fn = "UnstructuredMap" /\ HasDuplicates(call.indices)) => IsExc(m)

\* C9: for every variant, global_from_local(l) raises IndexError whenever
\* l >= local_size.
C9_GlobalFromLocalBound ==
    (IsMap(m) /\ res.op = "global_from_local" /\ res.arg >= m.local_size) =>
        res.out = Raise("IndexError")

\* C9 witness: global_from_local(local_size) was called on a Cyclic map that
\* owns something, and raised.
C9_Witness ==
    /\ IsMap(m)
    /\ m.cls = "CyclicMap"
    /\ m.local_size = 2
    /\ res.op = "global_from_local"
    /\ res.arg = m.local_size
    /\ res.out = Raise("IndexError")

\* every answer the two maps give agrees
SameAnswers(a, b) ==
    /\ a.local_size = b.local_size
    /\ \A g \in GlobalInds : local_from_global(a, g) = local_from_global(b, g)
    /\ \A l \in LocalInds : global_from_local(a, l) = global_from_local(b, l)

C11_GridSizeOneIsBlock ==
    (call.fn = "BlockCyclicMap" /\ IsMap(m) /\ call.grid_size = 1
        /\ call.grid_rank = 0 /\ call.start = 0) =>
        LET bm == BlockMap(call.global_size, 1, 0, 0, call.global_size)
        IN /\ m.local_size = bm.local_size
           /\ res.op = "local_from_global" =>
                  res.out = BlockMap_local_from_global(bm, res.arg)

\* C12 (as claimed): every component of MDMap.global_from_local is the
\* same-axis map's global_from_local of the same-axis argument, and
\* global_from_local(*local_from_global(*g)) == g for every global tuple g
\* whose components are all owned.
C12_MDGlobalFromLocal ==
    /\ (IsMDMap(m) /\ res.op = "MDMap.global_from_local"
            /\ Len(res.arg) = m.ndim) =>
           res.out = TupleOf([d \in 1..m.ndim |->
                                 global_from_local(m.maps[d], res.arg[d])])
    /\ (IsMDMap(m) /\ res.op = "MDMap.local_from_global"
            /\ Len(res.arg) = m.ndim /\ ~IsExc(res.out)) =>
           MDMap_global_from_local(m, res.out.tup) = [tup |-> res.arg]

\* C13 (as claimed): local_shape of every MDMap that from_dim_data builds is
\* the tuple of the local_size attributes of its axis maps, in axis order.
C13_LocalShape ==
    (IsMDMap(m) /\ res.op = "MDMap.local_shape") =>
        res.out = [tup |-> [d \in 1..m.ndim |-> m.maps[d].local_size]]

\* the case of C14: an Unstructured map built from a list of distinct indices
C14_Case == call.fn = "UnstructuredMap" /\ ~HasDuplicates(call.indices)

\* C14: for an Unstructured map built from distinct indices I,
\* local_from_global(g) is the position of g in I for g in I and raises
\* IndexError for every other g, global_from_local(l) == I[l] for l in
\* [0, len(I)), and the map rebuilt from its descriptor holds I in the same
\* order and answers as the original does.
C14_UnstructuredOrder ==
    C14_Case =>
        LET I == call.indices IN
        /\ IsMap(m)
        /\ m.indices = I
        /\ m.local_size = Len(I)
        /\ res.op = "local_from_global" =>
               IF \E i \in 1..Len(I) : I[i] = res.arg
               THEN ~IsExc(res.out) /\ I[res.out.val + 1] = res.arg
               ELSE res.out = Raise("IndexError")
        /\ (res.op = "global_from_local" /\ res.arg \in 0..(Len(I) - 1)) =>
               res.out = [val |-> I[res.arg + 1]]
        /\ res.op = "rebuild" =>
               /\ IsMap(res.out)
               /\ res.out.cls = "UnstructuredMap"
               /\ res.out.indices = I
               /\ SameAnswers(res.out, m)

\* C14 witness: the map built from [3, 1, 2] answered local_from_global(1)
\* with local index 1.
C14_Witness ==
    /\ C14_Case
    /\ call.indices = <<3, 1, 2>>
    /\ res.op = "local_from_global"
    /\ res.arg = 1
    /\ res.out = [val |-> 1]
    /\ global_from_local(m, 0) = [val |-> 3]

\* the case of C15: a Block map, built from a 'b' descriptor with start and
\* stop, from an 'n' descriptor, or by the constructor
C15_Case ==
    \/ call.fn = "BlockMap"
    \/ /\ call.fn = "map_from_dim_dict"
       /\ \/ call.dd.dist_type = "n"
          \/ /\ call.dd.dist_type = "b"
             /\ "start" \in DOMAIN call.dd
             /\ "stop" \in DOMAIN call.dd

C15_Start ==
    IF call.fn = "BlockMap" THEN call.start
    ELSE IF call.dd.dist_type = "n" THEN 0 ELSE call.dd.start

C15_Stop ==
    IF call.fn = "BlockMap" THEN call.stop
    ELSE IF call.dd.dist_type = "n" THEN call.dd.size ELSE call.dd.stop

SliceRange(s) == Range(s.start, s.stop, IF "step" \in DOMAIN s THEN s.step ELSE 1)

\* C16: global_slice of a Block or Cyclic map returns a start/stop/step
\* triple that enumerates exactly global_index, which is the owned positions
\* in local-index order; global_slice of a Block-Cyclic or Unstructured map
\* raises NotImplementedError and returns no range.
C16_GlobalSlice ==
    (IsMap(m) /\ res.op = "global_slice") =>
        IF m.cls \in {"BlockMap", "CyclicMap"}
        THEN /\ ~IsExc(res.out)
             /\ [seq |-> SliceRange(res.out.slice)] = global_index(m)
             /\ \A i \in 1..Len(SliceRange(res.out.slice)) :
                    global_from_local(m, i - 1) = [val |-> SliceRange(res.out.slice)[i]]
        ELSE res.out = Raise("NotImplementedError")

\* C16 witness: global_slice of the Cyclic map of rank 1 of 2 over 5
\* positions returned slice(1, 5, 2), which enumerates 1, 3.
C16_Witness ==
    /\ IsMap(m)
    /\ m.cls = "CyclicMap"
    /\ res.op = "global_slice"
    /\ res.out = [slice |-> [start |-> 1, stop |-> 5, step |-> 2]]
    /\ SliceRange(res.out.slice) = <<1, 3>>

\* the case of C17: a cyclic descriptor with start, size and proc_grid_size
\* and nothing else, start being a grid position
C17_Case ==
    /\ call.fn = "map_from_dim_dict"
    /\ call.dd.dist_type = "c"
    /\ DOMAIN call.dd = {"dist_type", "size", "start", "proc_grid_size"}
    /\ call.dd.start \in 0..(call.dd.proc_grid_size - 1)

\* C17 (as claimed): a cyclic descriptor that omits proc_grid_rank builds a
\* map that owns exactly start, start + proc_grid_size, ... below size, with
\* local indices 0, 1, 2, ... in that order; local_index fails for a global
\* it does not own and global_index[l] raises IndexError for
\* l >= local_size.
C17_CyclicWithoutRank ==
    C17_Case =>
        LET owned == Range(call.dd.start, call.dd.size, call.dd.proc_grid_size) IN
        /\ IsMap(m)
        /\ global_index(m) = [seq |-> owned]
        /\ m.local_size = Len(owned)
        /\ res.op = "local_index" =>
               IF \E i \in 1..Len(owned) : owned[i] = res.arg
               THEN ~IsExc(res.out) /\ owned[res.out.val + 1] = res.arg
               ELSE res.out = Raise("KeyError")
        /\ (res.op = "global_index" /\ res.arg >= Len(owned)) =>
               res.out = Raise("IndexError")

\* the case of C18: a Block-Cyclic map on a well-formed grid, built by the
\* constructor for a rank in [0, grid_size) or from a descriptor whose
\* proc_grid_rank is absent or in [0, proc_grid_size)
C18_Case ==
    /\ IsMap(m)
    /\ m.cls = "BlockCyclicMap"
    /\ m.grid_size >= 1
    /\ m.start >= 0
    /\ \/ call.fn = "BlockCyclicMap" /\ call.grid_rank \in 0..(call.grid_size - 1)
       \/ /\ call.fn = "map_from_dim_dict"
          /\ Get(call.dd, "proc_grid_rank", 0) \in 0..(m.grid_size - 1)

\* the positions C18 says the map owns
C18_Owned ==
    {g \in 0..(m.global_size - 1) :
        Mod(FloorDiv(g, m.block_size) - FloorDiv(m.start, m.block_size),
            m.grid_size) = 0}

\* C18 (as claimed): the owned globals of a Block-Cyclic map with block_size
\* b, grid_size p and start s, in local-index order, are exactly the g in
\* [0, global_size) with ((g // b) - (s // b)) mod p == 0 in ascending order,
\* and local_from_global(g) == ((g // b - s // b) // p) * b + (g mod b) for
\* each of them.
C18_BlockCyclicOwned ==
    C18_Case =>
        LET gi == global_index(m) IN
        /\ ~IsExc(gi)
        /\ {gi.seq[i] : i \in 1..Len(gi.seq)} = C18_Owned
        /\ \A i, j \in 1..Len(gi.seq) : i < j => gi.seq[i] < gi.seq[j]
        /\ (res.op = "local_from_global" /\ res.arg \in C18_Owned) =>
               res.out = [val |->
                   FloorDiv(FloorDiv(res.arg, m.block_size)
                                - FloorDiv(m.start, m.block_size), m.grid_size)
                       * m.block_size
                   + Mod(res.arg, m.block_size)]

\* the case of C19: a 'c' descriptor without proc_grid_rank whose block_size
\* (> 1) is size / proc_grid_size and whose start is a multiple of block_size
C19_Case ==
    /\ call.fn = "map_from_dim_dict"
    /\ call.dd.dist_type = "c"
    /\ DOMAIN call.dd = {"dist_type", "size", "start", "proc_grid_size", "block_size"}
    /\ call.dd.block_size > 1
    /\ call.dd.block_size * call.dd.proc_grid_size = call.dd.size
    /\ Mod(call.dd.start, call.dd.block_size) = 0

\* the Block map C19 compares with: start s, stop s + block_size
C19_BlockMap ==
    map_from_dim_dict([dist_type |-> "b", size |-> call.dd.size,
                       start |-> call.dd.start,
                       stop |-> call.dd.start + call.dd.block_size,
                       proc_grid_size |-> call.dd.proc_grid_size])

\* C19: a Block-Cyclic map with block_size = global_size / grid_size and start
\* s, built from a descriptor without proc_grid_rank, gives every global g in
\* [s, s + block_size) the local index that the Block map with start s and
\* stop s + block_size gives it.
C19_BlockCyclicIsBlock ==
    C19_Case =>
        LET s == call.dd.start
            b == call.dd.block_size
        IN /\ IsMap(m)
           /\ m.cls = "BlockCyclicMap"
           /\ ~IsExc(local_index(m))
           /\ \A g \in s..(s + b - 1) :
                  /\ DictGet(local_index(m).dict, g)
                         = DictGet(local_index(C19_BlockMap).dict, g)
                  /\ DictGet(local_index(m).dict, g) = [val |-> g - s]
           /\ (res.op = "local_index" /\ res.arg \in s..(s + b - 1)) =>
                  res.out = DictGet(local_index(C19_BlockMap).dict, res.arg)

\* C19 witness: size 6 on 3 ranks in blocks of 2, start 4: local_index[5]
\* was read and is 1.
C19_Witness ==
    /\ C19_Case
    /\ call.dd.size = 6
    /\ call.dd.proc_grid_size = 3
    /\ call.dd.block_size = 2
    /\ call.dd.start = 4
    /\ res.op = "local_index"
    /\ res.arg = 5
    /\ res.out = [val |-> 1]

\* the grid position C20 gives for component g of axis d
C20_Position(d, g) ==
    IF m.dist[d] = "c" THEN Mod(g, m.grid_shape[d])
    ELSE FloorDiv(g, FloorDiv(m.shape[d] + m.grid_shape[d] - 1, m.grid_shape[d]))

\* the row-major flattening (last axis fastest) of the C20 positions
C20_Rank(index) ==
    IF Len(index) = 1 THEN C20_Position(1, index[1])
    ELSE C20_Position(1, index[1]) * m.grid_shape[2] + C20_Position(2, index[2])

\* C20: for a scalar global index tuple owning_ranks returns exactly one
\* rank, the row-major flattening of the per-axis grid positions, where the
\* position on a cyclic axis is g mod grid_size and on a block (or
\* not-distributed) axis g // chunk with chunk the ceiling of
\* global_size / grid_size.
C20_OwningRanks ==
    (IsClientMDMap(m) /\ res.op = "owning_ranks") =>
        res.out = [seq |-> <<C20_Rank(res.arg)>>]

\* C20 witness: cyclic x cyclic on shape (3, 5) with grid (2, 2):
\* owning_ranks((2, 3)) was asked and is [1].
C20_Witness ==
    /\ IsClientMDMap(m)
    /\ m.shape = <<3, 5>>
    /\ m.dist = <<"c", "c">>
    /\ m.grid_shape = <<2, 2>>
    /\ res.op = "owning_ranks"
    /\ res.arg = <<2, 3>>
    /\ res.out = [seq |-> <<1>>]

C21_Ops == {"_from_dim_data", "load_npy", "load_hdf5"}

\* C21: reconstruction from a descriptor table whose number of entries
\* differs from the number of participating ranks is rejected with an error,
\* before any key is generated and before any command or push is sent to an
\* engine; the engines keep what they held.
C21_LengthChecked ==
    (IsContext(m) /\ res.op \in C21_Ops /\ Len(res.arg) # Len(m.targets)) =>
        /\ IsExc(res.out)
        /\ res.keys = 0
        /\ res.sent = <<>>

\* C21 witness: a Context of two ranks, holding an array from an earlier
\* reconstruction, was handed a table of three entries by load_hdf5 and
\* raised TypeError.
C21_Witness ==
    /\ IsContext(m)
    /\ Len(m.targets) = 2
    /\ m.da
    /\ res.op = "load_hdf5"
    /\ Len(res.arg) = 3
    /\ res.out = Raise("TypeError")

\* a table of one-axis Block entries tiles [0, global_size): in rank order
\* the first start is 0, every stop is the next start, the last stop is the
\* global size
C22_Tiles(table) ==
    /\ table[1][1].start = 0
    /\ \A r \in 1..Len(table) : table[r][1].start <= table[r][1].stop
    /\ \A r \in 1..(Len(table) - 1) : table[r][1].stop = table[r + 1][1].start
    /\ table[Len(table)][1].stop = table[Len(table)][1].size

C22_Case ==
    /\ IsContext(m)
    /\ res.op \in C21_Ops
    /\ Len(res.arg) = Len(m.targets)
    /\ \A r \in 1..Len(res.arg) : res.arg[r][1].dist_type = "b"
    /\ ~C22_Tiles(res.arg)

\* C22: reconstruction from a descriptor table whose Block start/stop pairs
\* across ranks leave a gap or an overlap in [0, global_size) fails with an
\* error, and no rank is left holding a map built from that table that
\* could answer an index query.
C22_TilingChecked ==
    C22_Case =>
        /\ IsExc(res.out)
        /\ ~(m.da /\ m.engines = [r \in 1..Len(res.arg) |->
                                     MDMap_from_dim_data(res.arg[r])])

\* C23: for every CyclicMap that construction accepts with global_size >= 0,
\* local_size is never negative and equals the number of owned global
\* positions, the length of range(start, global_size, grid_size).
C23_CyclicLocalSize ==
    (IsMap(m) /\ m.cls = "CyclicMap" /\ m.global_size >= 0) =>
        /\ m.local_size >= 0
        /\ m.local_size = RangeLen(m.start, m.global_size, m.grid_size)
        /\ m.local_size = Len(CyclicMap_global_index(m).seq)

\* C24: maps and distributions hold no mutable state.  A query on a
\* constructed map, MDMap or ClientMDMap, successful or failing, leaves
\* every attribute of the object as it was, and global_index read twice in
\* a row at the same position gives the same answer.
C24_QueriesLeaveMap ==
    [][(IsMap(m) \/ IsMDMap(m) \/ IsClientMDMap(m)) =>
           /\ m' = m
           /\ (res.op = "global_index" /\ res'.op = "global_index"
                   /\ res'.arg = res.arg) => res'.out = res.out]_vars

\* C24 witness: global_index was read at its second position on an
\* Unstructured map of two indices, and the map is still what the
\* constructor made of its arguments.
C24_Witness ==
    /\ call.fn = "UnstructuredMap"
    /\ Len(call.indices) = 2
    /\ m = UnstructuredMap(call.global_size, call.grid_size, call.grid_rank,
                           call.indices)
    /\ res.op = "global_index"
    /\ res.arg = 1
    /\ res.out = [val |-> call.indices[2]]

\* self.local_index[g], the lookup MDMap.local_from_global makes
C25_TableLookup(self, g) ==
    LET li == local_index(self)
    IN IF IsExc(li) THEN li ELSE DictGet(li.dict, g)

\* C25: the two lookup paths of one map agree: for every g the method
\* local_from_global(g) succeeds exactly when the table lookup
\* local_index[g] succeeds, and both give the same local index.
C25_LookupPathsAgree ==
    IsMap(m) =>
        \A g \in GlobalInds :
            LET a == local_from_global(m, g)
                b == C25_TableLookup(m, g)
            IN /\ IsExc(a) <=> IsExc(b)
               /\ ~IsExc(a) => a = b

\* C26: for every map that construction accepts and every l in
\* [0, local_size), global_from_local(l) returns a global index g with
\* 0 <= g < global_size.
C26_GlobalFromLocalInRange ==
    IsMap(m) =>
        \A l \in 0..(m.local_size - 1) :
            LET g == global_from_local(m, l)
            IN ~IsExc(g) /\ 0 <= g.val /\ g.val < m.global_size

\* C27: global_from_local(l) raises IndexError for every l outside
\* [0, local_size), negative l included, on every axis map; and
\* MDMap.global_from_local raises IndexError when a component lies outside
\* [0, local_size) of its axis.
C27_LocalIndexChecked ==
    /\ (IsMap(m) /\ res.op = "global_from_local"
            /\ (res.arg < 0 \/ res.arg >= m.local_size)) =>
           res.out = Raise("IndexError")
    /\ (IsMDMap(m) /\ res.op = "MDMap.global_from_local"
            /\ Len(res.arg) = m.ndim
            /\ \E d \in 1..m.ndim :
                   res.arg[d] < 0 \/ res.arg[d] >= m.maps[d].local_size) =>
           res.out = Raise("IndexError")

\* the elements of a list
C28_Elems(lst) == {lst[i] : i \in 1..Len(lst)}

\* C28: DistArray.__getitem__ and __setitem__ send their commands only to
\* the engines that owning_targets returned for the normalized index: with
\* exactly one owner only that engine is contacted, and in no case, an empty
\* owner list included, is an engine contacted that owning_targets did not
\* return.
C28_OnlyOwnersContacted ==
    (IsContext(m) /\ res.op \in {"__getitem__", "__setitem__"}) =>
        \A i \in 1..Len(res.sent) :
            C28_Elems(res.sent[i].targets) \subseteq C28_Elems(res.owners)

\* the Unstructured map as the constructor built it from its arguments
C29_Built ==
    UnstructuredMap(call.global_size, call.grid_size, call.grid_rank, call.indices)

\* C29: an Unstructured map shares no mutable state with its callers:
\* whatever the caller did to the sequence it passed to the constructor, to
\* the list global_index returned or to the 'indices' entry of the
\* descriptor, local_size and every later local_from_global,
\* global_from_local and local_index answer are those of the map as built.
C29_NoSharedState ==
    (call.fn = "UnstructuredMap" /\ IsMap(m)) =>
        /\ m.local_size = C29_Built.local_size
        /\ res.op = "local_from_global" =>
               res.out = local_from_global(C29_Built, res.arg)
        /\ res.op = "global_from_local" =>
               res.out = global_from_local(C29_Built, res.arg)
        /\ res.op = "local_index" =>
               res.out = C25_TableLookup(C29_Built, res.arg)

====
